---- MODULE Spec2Model ----
(***************************************************************************)
(* Token lifecycle of OmniHub.                                             *)
(*                                                                         *)
(* Server side (specification Spec): AuthService over the refresh_tokens   *)
(* table.  refreshTokens is a sequence of awaited database statements, so  *)
(* each statement is one step of a request-handling task and the steps of  *)
(* different tasks interleave; login, logout, logoutAll and revokeSession  *)
(* touch the table with a single statement each.                           *)
(*                                                                         *)
(* Client side (specification ClientSpec): the token manager, the          *)
(* coordinated refresh (refreshAccessToken) and apiRequest of the frontend *)
(* API module, run by a single-threaded event loop: a step that follows an *)
(* await on an already settled promise (a microtask) runs before any       *)
(* network event or new call (a macrotask).  The server is a               *)
(* nondeterministic responder.                                             *)
(***************************************************************************)
EXTENDS Integers, Sequences, FiniteSets, TLC

\* ------------------------------------------------------------------ bounds
NumTasks == 2
NumUsers == 2
MaxRows == 3
MaxNow == 4
NumCalls == 2
MaxClock == 4
\* auth.refresh() is called while fewer refreshes than this have been started.
MaxRefreshes == 2
\* Date.now() advances in steps of TickMs milliseconds.
TickMs == 435000
\* jwt.refreshTokenExpiryMs (the lifetime of a refresh token), in ticks of the
\* server clock.
refreshTokenExpiryMs == 2
\* Range and resolution of the API process's millisecond clock.
MaxIssueSeconds == 1802
IssueStepMs == 500
MaxSkewMs == 1500
\* Number of migration files, and of migrate() calls.
MaxFiles == 3
MaxRuns == 3

\* --------------------------------------------------------------- constants
\* SQL NULL / JavaScript null.  Tokens, row ids and timestamps are >= 1.
NULL == 0
\* jwt.accessTokenExpirySeconds (expiresIn of every token response), in seconds.
accessTokenExpirySeconds == 900
\* The client's safety margin, in seconds.
EXPIRY_BUFFER == 30
\* What refreshAccessToken returns when no refresh token is stored: a promise
\* already settled with false (no network call).
ResolvedFalse == -1
\* HTTP statuses; NetworkError stands for fetch() rejecting.
OK == 200
UNAUTHORIZED == 401
SERVER_ERROR == 500
CREATED == 201
BAD_REQUEST == 400
NetworkError == -2

Tasks == 1..NumTasks
Users == 1..NumUsers
Calls == 1..NumCalls

VARIABLES
  refresh_tokens,   \* the refresh_tokens table, in insertion order; id = position
  ghost,            \* per row, history only: how the row came to be and who aimed at it
  uuidCount,        \* number of token values uuidv4() has produced
  now,              \* the server clock (Date.now() / CURRENT_TIMESTAMP)
  pc,               \* per task: position inside refreshTokens
  presented,        \* per task: the refreshToken argument
  storedToken,      \* per task: id of the row the SELECT returned (NULL: none)
  newRefreshToken,  \* per task: the uuid generated for the successor
  res,              \* per task: outcome of refreshTokens
  \* ---- client ----
  ls,               \* localStorage: accessToken, refreshToken, tokenExpiry, userToken
  isRefreshing,     \* module-level flag
  refreshPromise,   \* module-level shared promise (NULL, or the id of a refresh)
  refreshes,        \* every network refresh started so far, by id
  issued,           \* number of token pairs the server has issued to this client
  cnow,             \* the client clock, in ticks: Date.now() = cnow * TickMs
  kind,             \* per call: which entry point made it
  cpc,              \* per call: position inside apiRequest
  retry,            \* per call: the _retry flag
  awaiting,         \* per call: the promise refreshAccessToken returned
  sent,             \* per call: bearer token of each request sent (NULL: no header)
  statuses,         \* per call: status of each response received
  joined,           \* per call: promises awaited [before sending, after a 401]
  outcome,          \* per call: how apiRequest settled
  \* ---- token issuance and the access guard ----
  itime,            \* Date.now() of the API process, in milliseconds
  tokenPair,        \* what generateTokenPair / refreshTokens returned last (or NoPair)
  sessionRevoked,   \* revoked_at of that pair's refresh_tokens row is set
  guard,            \* the decision of JwtAuthGuard.canActivate, if the last request
                    \* was to a guarded route
  reply,            \* the HTTP reply, if the last request was a token operation
                    \* with a fault injected
  \* ---- migrations ----
  files,            \* the .sql files of the migrations directory: name -> has a DOWN part
  migrations,       \* the _migrations table: records [name, batch, run]
  runCount,         \* history: number of migrate() calls so far
  lastRun           \* history: what the last migrate() / rollback() call did

svars == <<refresh_tokens, ghost, uuidCount, now, pc, presented, storedToken,
           newRefreshToken, res>>

cvars == <<ls, isRefreshing, refreshPromise, refreshes, issued, cnow, kind, cpc,
           retry, awaiting, sent, statuses, joined, outcome>>

ivars == <<itime, tokenPair, sessionRevoked, guard, reply>>

mvars == <<files, migrations, runCount, lastRun>>

vars == <<svars, cvars, ivars, mvars>>

\* ------------------------------------------------------------- the table
RowIds == 1..Len(refresh_tokens)

\* uuidv4(): a value never produced before.
uuidv4 == uuidCount + 1

\* Fault variant: the lookup without its revoked_at condition.
SelectAnyByToken(table, token) ==
  {i \in 1..Len(table) : table[i].token = token}

\* SELECT * FROM refresh_tokens WHERE token = ? AND revoked_at IS NULL
SelectActiveByToken(table, token) ==
  {i \in 1..Len(table) : table[i].token = token /\ table[i].revoked_at = NULL}

\* INSERT INTO refresh_tokens (id, user_id, token, expires_at, user_agent, ip_address)
\* with expiresAt = new Date(Date.now() + refreshTokenExpiryMs); created_at DEFAULT NOW()
InsertRefreshToken(table, userId, token, t) ==
  Append(table, [id |-> Len(table) + 1, user_id |-> userId, token |-> token,
                 expires_at |-> t + refreshTokenExpiryMs, created_at |-> t,
                 revoked_at |-> NULL, replaced_by_token |-> NULL])

\* Fault variant: the rotation inserts the successor without touching the old row.
RotateSkipped(table, id, successor, t) == table

\* Fault variant: the rotation records the successor but leaves revoked_at unset.
RotateKeepsActive(table, id, successor, t) ==
  [table EXCEPT ![id].replaced_by_token = successor]

\* UPDATE refresh_tokens SET revoked_at = CURRENT_TIMESTAMP, replaced_by_token = ?
\* WHERE id = ?
RotateUpdate(table, id, successor, t) ==
  [table EXCEPT ![id].revoked_at = t, ![id].replaced_by_token = successor]

\* return { success: true, message: 'Logged out successfully' }
logoutReply(token) == [success |-> TRUE, message |-> "Logged out successfully"]

\* Fault variant: logout that stamps revoked_at again on a revoked row.
LogoutRestamps(table, token, t) ==
  [i \in 1..Len(table) |->
     IF table[i].token = token
     THEN [table[i] EXCEPT !.revoked_at = t]
     ELSE table[i]]

\* Fault variant: logout that writes nothing.
LogoutNoUpdate(table, token, t) == table

\* UPDATE refresh_tokens SET revoked_at = CURRENT_TIMESTAMP
\* WHERE token = ? AND revoked_at IS NULL
LogoutUpdate(table, token, t) ==
  [i \in 1..Len(table) |->
     IF table[i].token = token /\ table[i].revoked_at = NULL
     THEN [table[i] EXCEPT !.revoked_at = t]
     ELSE table[i]]

\* Fault variant: logoutAll that revokes only the user's oldest unrevoked row.
LogoutAllFirstOnly(table, userId, t) ==
  LET hit == {i \in 1..Len(table) :
                table[i].user_id = userId /\ table[i].revoked_at = NULL}
      first == IF hit = {} THEN NULL
               ELSE CHOOSE i \in hit : \A j \in hit : i <= j
  IN [i \in 1..Len(table) |->
        IF i = first THEN [table[i] EXCEPT !.revoked_at = t] ELSE table[i]]

\* UPDATE refresh_tokens SET revoked_at = CURRENT_TIMESTAMP
\* WHERE user_id = ? AND revoked_at IS NULL
LogoutAllUpdate(table, userId, t) ==
  [i \in 1..Len(table) |->
     IF table[i].user_id = userId /\ table[i].revoked_at = NULL
     THEN [table[i] EXCEPT !.revoked_at = t]
     ELSE table[i]]

\* Fault variant: revokeSession without the user_id condition.
RevokeAnySession(table, userId, sessionId, t) ==
  [i \in 1..Len(table) |->
     IF table[i].id = sessionId /\ table[i].revoked_at = NULL
     THEN [table[i] EXCEPT !.revoked_at = t]
     ELSE table[i]]

\* UPDATE refresh_tokens SET revoked_at = CURRENT_TIMESTAMP
\* WHERE id = ? AND user_id = ? AND revoked_at IS NULL
RevokeSessionUpdate(table, userId, sessionId, t) ==
  [i \in 1..Len(table) |->
     IF table[i].id = sessionId /\ table[i].user_id = userId
        /\ table[i].revoked_at = NULL
     THEN [table[i] EXCEPT !.revoked_at = t]
     ELSE table[i]]

\* Fault variant: the session list without its expires_at condition.
UnrevokedSessionIds(table, userId, t) ==
  {i \in 1..Len(table) : table[i].user_id = userId /\ table[i].revoked_at = NULL}

\* new Date(storedToken.expires_at) < new Date()
IsExpired(expires_at, t) == expires_at < t

\* SELECT id, created_at, expires_at, user_agent, ip_address FROM refresh_tokens
\* WHERE user_id = ? AND revoked_at IS NULL AND expires_at > CURRENT_TIMESTAMP
\* ORDER BY created_at DESC
RECURSIVE NewestFirst(_, _)
NewestFirst(table, keep) ==
  IF Len(table) = 0 THEN << >>
  ELSE LET last == table[Len(table)]
           rest == NewestFirst(SubSeq(table, 1, Len(table) - 1), keep)
       IN IF last.id \in keep
          THEN <<[id |-> last.id, createdAt |-> last.created_at,
                  expiresAt |-> last.expires_at]>> \o rest
          ELSE rest

ActiveSessionIds(table, userId, t) ==
  {i \in 1..Len(table) : /\ table[i].user_id = userId
                         /\ table[i].revoked_at = NULL
                         /\ table[i].expires_at > t}

getActiveSessions(userId) ==
  NewestFirst(refresh_tokens, ActiveSessionIds(refresh_tokens, userId, now))

\* ---------------------------------------------------------------- history
\* ghost[i].parent:   the token whose rotation inserted row i (NULL: a login)
\* ghost[i].targeted: a logout, logoutAll or revokeSession aimed at row i has returned
NewGhost(parent) == [parent |-> parent, targeted |-> FALSE]

Target(rows) ==
  [i \in 1..Len(ghost) |->
     IF i \in rows THEN [ghost[i] EXCEPT !.targeted = TRUE] ELSE ghost[i]]

\* Some refreshTokens(token) call has returned a new pair.
Succeeded(token) == \E i \in 1..Len(ghost) : ghost[i].parent = token

\* logout(token), or a logoutAll / revokeSession covering it, has returned.
Targeted(token) ==
  \E i \in RowIds : refresh_tokens[i].token = token /\ ghost[i].targeted

\* ------------------------------------------------------------ scheduling
InFlight == {p \in Tasks : pc[p] \in {"check", "revoke", "insert"}}

\* Room for one more row, counting the rows the in-flight rotations will insert.
CanInsert == Len(refresh_tokens) + Cardinality(InFlight) < MaxRows

\* Token values a client can present: the value of every row inserted so far
\* (a uuid is returned to a client only after its INSERT), and one that matches
\* no row.
Presentable == {refresh_tokens[i].token : i \in RowIds} \cup {-1}

\* ----------------------------------------------------------------- Init
ServerInit ==
  /\ refresh_tokens = << >>
  /\ ghost = << >>
  /\ uuidCount = 0
  /\ now = 1
  /\ pc = [p \in Tasks |-> "idle"]
  /\ presented = [p \in Tasks |-> NULL]
  /\ storedToken = [p \in Tasks |-> NULL]
  /\ newRefreshToken = [p \in Tasks |-> NULL]
  /\ res = [p \in Tasks |-> "none"]

\* -------------------------------------------------------------- actions
\* login / register / googleAuth -> generateTokenPair -> generateRefreshToken:
\* one INSERT of a fresh token for the user.
login(u) ==
  /\ UNCHANGED <<cvars, ivars, mvars>>
  /\ CanInsert
  /\ refresh_tokens' = InsertRefreshToken(refresh_tokens, u, uuidv4, now)
  /\ ghost' = Append(ghost, NewGhost(NULL))
  /\ uuidCount' = uuidCount + 1
  /\ UNCHANGED <<now, pc, presented, storedToken, newRefreshToken, res>>

\* refreshTokens, statement 1: look the presented token up.
refreshSelect(p, token) ==
  /\ UNCHANGED <<cvars, ivars, mvars>>
  /\ pc[p] = "idle"
  /\ CanInsert
  /\ LET found == SelectActiveByToken(refresh_tokens, token) IN
       /\ presented' = [presented EXCEPT ![p] = token]
       /\ IF found = {}
          THEN /\ storedToken' = [storedToken EXCEPT ![p] = NULL]
               /\ res' = [res EXCEPT ![p] = "Invalid refresh token"]
               /\ pc' = [pc EXCEPT ![p] = "done"]
          ELSE /\ storedToken' = [storedToken EXCEPT ![p] = CHOOSE i \in found : TRUE]
               /\ res' = [res EXCEPT ![p] = "none"]
               /\ pc' = [pc EXCEPT ![p] = "check"]
  /\ UNCHANGED <<refresh_tokens, ghost, uuidCount, now, newRefreshToken>>

\* refreshTokens: the expiry check, then the lookup of the user.
refreshCheck(p) ==
  /\ UNCHANGED <<cvars, ivars, mvars>>
  /\ pc[p] = "check"
  /\ IF IsExpired(refresh_tokens[storedToken[p]].expires_at, now)
     THEN /\ res' = [res EXCEPT ![p] = "Refresh token expired"]
          /\ pc' = [pc EXCEPT ![p] = "done"]
     ELSE IF refresh_tokens[storedToken[p]].user_id \notin Users
     THEN /\ res' = [res EXCEPT ![p] = "User not found"]
          /\ pc' = [pc EXCEPT ![p] = "done"]
     ELSE /\ pc' = [pc EXCEPT ![p] = "revoke"]
          /\ UNCHANGED res
  /\ UNCHANGED <<refresh_tokens, ghost, uuidCount, now, presented, storedToken,
                 newRefreshToken>>

\* refreshTokens: newRefreshToken = uuidv4(); UPDATE the old row by id.
refreshRevokeOld(p) ==
  /\ UNCHANGED <<cvars, ivars, mvars>>
  /\ pc[p] = "revoke"
  /\ newRefreshToken' = [newRefreshToken EXCEPT ![p] = uuidv4]
  /\ uuidCount' = uuidCount + 1
  /\ refresh_tokens' = RotateUpdate(refresh_tokens, storedToken[p], uuidv4, now)
  /\ pc' = [pc EXCEPT ![p] = "insert"]
  /\ UNCHANGED <<ghost, now, presented, storedToken, res>>

\* refreshTokens: INSERT the new row, sign the access token, return the pair.
refreshInsertNew(p) ==
  /\ UNCHANGED <<cvars, ivars, mvars>>
  /\ pc[p] = "insert"
  /\ refresh_tokens' = InsertRefreshToken(refresh_tokens,
                          refresh_tokens[storedToken[p]].user_id,
                          newRefreshToken[p], now)
  /\ ghost' = Append(ghost, NewGhost(presented[p]))
  /\ res' = [res EXCEPT ![p] = "ok"]
  /\ pc' = [pc EXCEPT ![p] = "done"]
  /\ UNCHANGED <<uuidCount, now, presented, storedToken, newRefreshToken>>

\* refreshTokens: the statement the call is about to run (the lookup of the
\* user, the UPDATE or the INSERT) rejects. Each statement is awaited on the
\* pool by itself, outside any transaction: what earlier statements wrote
\* stays, and the error leaves refreshTokens.
refreshThrows(p) ==
  /\ UNCHANGED <<cvars, ivars, mvars>>
  /\ pc[p] \in {"check", "revoke", "insert"}
  /\ res' = [res EXCEPT ![p] = "Internal server error"]
  /\ pc' = [pc EXCEPT ![p] = "done"]
  /\ UNCHANGED <<refresh_tokens, ghost, uuidCount, now, presented, storedToken,
                 newRefreshToken>>

\* The response has been sent; the task takes the next request.
refreshReturn(p) ==
  /\ UNCHANGED <<cvars, ivars, mvars>>
  /\ pc[p] = "done"
  /\ pc' = [pc EXCEPT ![p] = "idle"]
  /\ presented' = [presented EXCEPT ![p] = NULL]
  /\ storedToken' = [storedToken EXCEPT ![p] = NULL]
  /\ newRefreshToken' = [newRefreshToken EXCEPT ![p] = NULL]
  /\ res' = [res EXCEPT ![p] = "none"]
  /\ UNCHANGED <<refresh_tokens, ghost, uuidCount, now>>

logout(token) ==
  /\ UNCHANGED <<cvars, ivars, mvars>>
  /\ refresh_tokens' = LogoutUpdate(refresh_tokens, token, now)
  /\ ghost' = Target({i \in RowIds : refresh_tokens[i].token = token})
  /\ UNCHANGED <<uuidCount, now, pc, presented, storedToken, newRefreshToken, res>>

logoutAll(u) ==
  /\ UNCHANGED <<cvars, ivars, mvars>>
  /\ refresh_tokens' = LogoutAllUpdate(refresh_tokens, u, now)
  /\ ghost' = Target({i \in RowIds : refresh_tokens[i].user_id = u})
  /\ UNCHANGED <<uuidCount, now, pc, presented, storedToken, newRefreshToken, res>>

revokeSession(u, sessionId) ==
  /\ UNCHANGED <<cvars, ivars, mvars>>
  /\ refresh_tokens' = RevokeSessionUpdate(refresh_tokens, u, sessionId, now)
  /\ ghost' = Target({i \in RowIds : i = sessionId /\ refresh_tokens[i].user_id = u})
  /\ UNCHANGED <<uuidCount, now, pc, presented, storedToken, newRefreshToken, res>>

\* Time passes between two statements. The clock is followed tick by tick
\* within the first token lifetime and then moves on by a whole lifetime, so
\* that tokens of different ages, a token at its expiry instant and a token past
\* it all occur within MaxNow.
Tick ==
  /\ UNCHANGED <<cvars, ivars, mvars>>
  /\ LET step == IF now < refreshTokenExpiryMs THEN 1 ELSE refreshTokenExpiryMs IN
       /\ now + step <= MaxNow
       /\ now' = now + step
  /\ UNCHANGED <<refresh_tokens, ghost, uuidCount, pc, presented, storedToken,
                 newRefreshToken, res>>


\* ====================================================================
\* Client: tokenManager, refreshAccessToken, apiRequest, auth
\* ====================================================================
EmptyStorage ==
  [accessToken |-> NULL, refreshToken |-> NULL, tokenExpiry |-> NULL,
   userToken |-> NULL]

\* Date.now()
DateNow == cnow * TickMs

\* localStorage.getItem(ACCESS_TOKEN_KEY) || localStorage.getItem(LEGACY_TOKEN_KEY)
getAccessToken(s) ==
  IF s.accessToken # NULL THEN s.accessToken ELSE s.userToken

getRefreshToken(s) == s.refreshToken

\* setTokens(accessToken, refreshToken, expiresIn) at time t (milliseconds)
setTokens(s, accessToken, refreshToken, expiresIn, t) ==
  [accessToken |-> accessToken,
   refreshToken |-> refreshToken,
   userToken |-> accessToken,
   tokenExpiry |-> IF expiresIn # 0
                   THEN t + (expiresIn - EXPIRY_BUFFER) * 1000
                   ELSE s.tokenExpiry]

\* Fault variant: clearTokens() that leaves the legacy key in place.
ClearsCanonicalOnly(s) == [EmptyStorage EXCEPT !.userToken = s.userToken]

clearTokens(s) == EmptyStorage

isTokenExpired(s, t) ==
  IF s.tokenExpiry = NULL THEN TRUE ELSE t >= s.tokenExpiry

hasTokens(s) ==
  /\ getAccessToken(s) # NULL
  /\ (getRefreshToken(s) # NULL \/ s.userToken # NULL)

\* What localStorage can hold when the page loads: nothing; only the legacy key
\* (written by an earlier version); or what setTokens(1, 1, expiresIn) wrote at
\* time t.
StoredAt(t) == setTokens(EmptyStorage, 1, 1, accessTokenExpirySeconds, t)

InitialStorages ==
  {EmptyStorage,
   [EmptyStorage EXCEPT !.userToken = 1],
   StoredAt(0),
   StoredAt(2 * TickMs)}

\* A settled promise runs its continuation before any macrotask.
Settled(a) ==
  \/ a = ResolvedFalse
  \/ a \in 1..Len(refreshes) /\ refreshes[a].result # "pending"

Refreshed(a) ==
  a \in 1..Len(refreshes) /\ refreshes[a].result = "true"

MicrotaskPending ==
  \E c \in Calls : cpc[c] \in {"awaitProactive", "await401"} /\ Settled(awaiting[c])

Auth(k) == k \in {"api", "logoutAll"}

\* if (isRefreshing && refreshPromise) return refreshPromise;
NeverJoins == FALSE

JoinsInFlight == isRefreshing /\ refreshPromise # NULL

\* refreshAccessToken(), up to its first await: the promise it returns and
\* whether it started a network call.
refreshAccessToken ==
  IF JoinsInFlight
  THEN [ret |-> refreshPromise, started |-> FALSE]
  ELSE IF getRefreshToken(ls) = NULL
  THEN [ret |-> ResolvedFalse, started |-> FALSE]
  ELSE [ret |-> Len(refreshes) + 1, started |-> TRUE]

\* Fault variant: the fetch is started but isRefreshing is left unset.
CallRefreshFlagUnset(r) ==
  IF r.started
  THEN /\ isRefreshing' = isRefreshing
       /\ refreshPromise' = r.ret
       /\ refreshes' = Append(refreshes,
                          [state |-> "fetching", sentToken |-> getRefreshToken(ls),
                           status |-> NULL, result |-> "pending", access |-> NULL])
  ELSE UNCHANGED <<isRefreshing, refreshPromise, refreshes>>

\* The module-level state after a call of refreshAccessToken().
CallRefresh(r) ==
  IF r.started
  THEN /\ isRefreshing' = TRUE
       /\ refreshPromise' = r.ret
       /\ refreshes' = Append(refreshes,
                          [state |-> "fetching", sentToken |-> getRefreshToken(ls),
                           status |-> NULL, result |-> "pending", access |-> NULL])
  ELSE UNCHANGED <<isRefreshing, refreshPromise, refreshes>>

\* Fault variant: no check of the expiry before sending.
NoProactiveCheck(s, t, _retry) == FALSE

\* tokenManager.hasTokens() && tokenManager.isTokenExpired() && !_retry
NeedsProactiveRefresh(s, t, _retry) ==
  hasTokens(s) /\ isTokenExpired(s, t) /\ ~_retry

\* response.status === 401 && auth && !_retry
RetriesAlways(status, auth, _retry) == status = UNAUTHORIZED /\ auth

ShouldRefreshAndRetry(status, auth, _retry) ==
  status = UNAUTHORIZED /\ auth /\ ~_retry

\* if (refreshed) return apiRequest(endpoint, {...config, _retry: true});
GivesUpAfter401(refreshed) == FALSE

RetriesAfter401(refreshed) == refreshed

NoOutcome == [kind |-> "none", status |-> NULL, message |-> "", attempt |-> NULL]

SessionExpired ==
  [kind |-> "ApiError", status |-> UNAUTHORIZED,
   message |-> "Session expired. Please login again.", attempt |-> NULL]

\* new ApiError(data.error || data.message || 'Request failed', response.status, data)
RequestFailed(status, attempt) ==
  [kind |-> "ApiError", status |-> status, message |-> "Request failed",
   attempt |-> attempt]

FetchRejected(attempt) ==
  [kind |-> "TypeError", status |-> NULL, message |-> "fetch", attempt |-> attempt]

Data(attempt) ==
  [kind |-> "data", status |-> OK, message |-> "", attempt |-> attempt]

\* Fault variant: auth.logout / auth.logoutAll without their try / catch: a
\* rejected request skips clearTokens().
ClearsOnSuccessOnly(k, out, s, t) ==
  IF out.kind # "data" THEN s
  ELSE IF k = "login"
  THEN setTokens(s, issued + 1, issued + 1, accessTokenExpirySeconds, t)
  ELSE IF k \in {"logout", "logoutAll"}
  THEN clearTokens(s)
  ELSE s

\* What the caller of apiRequest does with the settled promise: auth.login /
\* register / googleAuth store the pair of the response; auth.logout and
\* auth.logoutAll clear the tokens whether the call resolved or rejected.
Continuation(k, out, s, t) ==
  IF k = "login"
  THEN IF out.kind = "data"
       THEN setTokens(s, issued + 1, issued + 1, accessTokenExpirySeconds, t)
       ELSE s
  ELSE IF k \in {"logout", "logoutAll"}
  THEN clearTokens(s)
  ELSE s

\* What the promise the application holds settles with: auth.logout and
\* auth.logoutAll catch the rejection of their request and resolve; the others
\* settle as their request did.
Void == [kind |-> "void", status |-> NULL, message |-> "", attempt |-> NULL]

AuthResult(k, out) ==
  IF k \in {"logout", "logoutAll"} THEN Void ELSE out

\* apiRequest(c) settles with out.
Settle(c, out) ==
  /\ cpc' = [cpc EXCEPT ![c] = IF out.kind = "data" THEN "resolved" ELSE "rejected"]
  /\ outcome' = [outcome EXCEPT ![c] = out]
  /\ ls' = Continuation(kind[c], out, ls, DateNow)
  /\ issued' = IF kind[c] = "login" /\ out.kind = "data" THEN issued + 1 ELSE issued

\* fetch(`${API_BASE}${endpoint}`, ...) with the Authorization header, if any.
Send(c, bearer) ==
  /\ sent' = [sent EXCEPT ![c] = Append(@, bearer)]
  /\ cpc' = [cpc EXCEPT ![c] = "fetching"]

ClientInit ==
  /\ ls \in InitialStorages
  /\ isRefreshing = FALSE
  /\ refreshPromise = NULL
  /\ refreshes = << >>
  /\ issued = 1
  /\ cnow = 2
  /\ kind = [c \in Calls |-> "none"]
  /\ cpc = [c \in Calls |-> "idle"]
  /\ retry = [c \in Calls |-> FALSE]
  /\ awaiting = [c \in Calls |-> NULL]
  /\ sent = [c \in Calls |-> << >>]
  /\ statuses = [c \in Calls |-> << >>]
  /\ joined = [c \in Calls |-> <<NULL, NULL>>]
  /\ outcome = [c \in Calls |-> NoOutcome]

\* The client is not running.
ClientOff ==
  /\ ls = EmptyStorage
  /\ isRefreshing = FALSE
  /\ refreshPromise = NULL
  /\ refreshes = << >>
  /\ issued = 1
  /\ cnow = 2
  /\ kind = [c \in Calls |-> "none"]
  /\ cpc = [c \in Calls |-> "idle"]
  /\ retry = [c \in Calls |-> FALSE]
  /\ awaiting = [c \in Calls |-> NULL]
  /\ sent = [c \in Calls |-> << >>]
  /\ statuses = [c \in Calls |-> << >>]
  /\ joined = [c \in Calls |-> <<NULL, NULL>>]
  /\ outcome = [c \in Calls |-> NoOutcome]

\* apiRequest with auth = true (an API call, or auth.logoutAll's POST), up to
\* its first await.
callAuthorized(c, k) ==
  /\ UNCHANGED <<svars, ivars, mvars>>
  /\ cpc[c] = "idle"
  /\ ~MicrotaskPending
  /\ Auth(k)
  /\ kind' = [kind EXCEPT ![c] = k]
  /\ IF NeedsProactiveRefresh(ls, DateNow, retry[c])
     THEN LET r == refreshAccessToken IN
            /\ CallRefresh(r)
            /\ awaiting' = [awaiting EXCEPT ![c] = r.ret]
            /\ joined' = [joined EXCEPT ![c][1] = r.ret]
            /\ cpc' = [cpc EXCEPT ![c] = "awaitProactive"]
            /\ UNCHANGED sent
     ELSE /\ Send(c, getAccessToken(ls))
          /\ UNCHANGED <<isRefreshing, refreshPromise, refreshes, awaiting, joined>>
  /\ UNCHANGED <<ls, issued, cnow, retry, statuses, outcome>>

\* auth.login / register / googleAuth: apiRequest with auth = false.
callLogin(c) ==
  /\ UNCHANGED <<svars, ivars, mvars>>
  /\ cpc[c] = "idle"
  /\ ~MicrotaskPending
  /\ kind' = [kind EXCEPT ![c] = "login"]
  /\ Send(c, NULL)
  /\ UNCHANGED <<ls, isRefreshing, refreshPromise, refreshes, issued, cnow, retry,
                 awaiting, statuses, joined, outcome>>

\* auth.logout: POST /auth/logout with auth = false if a refresh token is
\* stored, otherwise clearTokens() at once.
callLogout(c) ==
  /\ UNCHANGED <<svars, ivars, mvars>>
  /\ cpc[c] = "idle"
  /\ ~MicrotaskPending
  /\ kind' = [kind EXCEPT ![c] = "logout"]
  /\ IF getRefreshToken(ls) # NULL
     THEN /\ Send(c, NULL)
          /\ UNCHANGED <<ls, outcome>>
     ELSE /\ ls' = clearTokens(ls)
          /\ cpc' = [cpc EXCEPT ![c] = "resolved"]
          /\ outcome' = [outcome EXCEPT ![c] = Data(NULL)]
          /\ UNCHANGED sent
  /\ UNCHANGED <<isRefreshing, refreshPromise, refreshes, issued, cnow, retry,
                 awaiting, statuses, joined>>

\* const refreshed = await refreshAccessToken(); before the first send.
resumeProactive(c) ==
  /\ UNCHANGED <<svars, ivars, mvars>>
  /\ cpc[c] = "awaitProactive"
  /\ Settled(awaiting[c])
  /\ IF Refreshed(awaiting[c])
     THEN /\ Send(c, getAccessToken(ls))
          /\ UNCHANGED <<ls, issued, outcome>>
     ELSE /\ Settle(c, SessionExpired)
          /\ UNCHANGED sent
  /\ awaiting' = [awaiting EXCEPT ![c] = NULL]
  /\ UNCHANGED <<isRefreshing, refreshPromise, refreshes, cnow, kind, retry,
                 statuses, joined>>

\* The response of the request has arrived and its body has been read.
response(c, status) ==
  /\ UNCHANGED <<svars, ivars, mvars>>
  /\ cpc[c] = "fetching"
  /\ ~MicrotaskPending
  /\ statuses' = [statuses EXCEPT ![c] = Append(@, status)]
  /\ IF status = NetworkError
     THEN /\ Settle(c, FetchRejected(Len(sent[c])))
          /\ UNCHANGED <<isRefreshing, refreshPromise, refreshes, awaiting, joined>>
     ELSE IF ShouldRefreshAndRetry(status, Auth(kind[c]), retry[c])
     THEN LET r == refreshAccessToken IN
            /\ CallRefresh(r)
            /\ awaiting' = [awaiting EXCEPT ![c] = r.ret]
            /\ joined' = [joined EXCEPT ![c][2] = r.ret]
            /\ cpc' = [cpc EXCEPT ![c] = "await401"]
            /\ UNCHANGED <<ls, issued, outcome>>
     ELSE IF status # OK
     THEN /\ Settle(c, RequestFailed(status, Len(sent[c])))
          /\ UNCHANGED <<isRefreshing, refreshPromise, refreshes, awaiting, joined>>
     ELSE /\ Settle(c, Data(Len(sent[c])))
          /\ UNCHANGED <<isRefreshing, refreshPromise, refreshes, awaiting, joined>>
  /\ UNCHANGED <<cnow, kind, retry, sent>>

\* const refreshed = await refreshAccessToken(); after a 401.
resume401(c) ==
  /\ UNCHANGED <<svars, ivars, mvars>>
  /\ cpc[c] = "await401"
  /\ Settled(awaiting[c])
  /\ IF RetriesAfter401(Refreshed(awaiting[c]))
     THEN /\ retry' = [retry EXCEPT ![c] = TRUE]
          /\ Send(c, getAccessToken(ls))
          /\ UNCHANGED <<ls, issued, outcome>>
     ELSE /\ Settle(c, SessionExpired)
          /\ UNCHANGED <<retry, sent>>
  /\ awaiting' = [awaiting EXCEPT ![c] = NULL]
  /\ UNCHANGED <<isRefreshing, refreshPromise, refreshes, cnow, kind, statuses,
                 joined>>

\* Fault variant: no finally block; the flag and the promise stay as they are.
NoFinally ==
  /\ isRefreshing' = isRefreshing
  /\ refreshPromise' = refreshPromise

\* finally { isRefreshing = false; refreshPromise = null; }
Finally ==
  /\ isRefreshing' = FALSE
  /\ refreshPromise' = NULL

\* The response of POST /auth/refresh has arrived (or fetch rejected).
refreshResponse(r, status) ==
  /\ UNCHANGED <<svars, ivars, mvars>>
  /\ r \in 1..Len(refreshes)
  /\ refreshes[r].state = "fetching"
  /\ ~MicrotaskPending
  /\ IF status = OK
     THEN /\ refreshes' = [refreshes EXCEPT ![r].state = "json", ![r].status = status]
          /\ UNCHANGED <<ls, isRefreshing, refreshPromise>>
     ELSE /\ ls' = clearTokens(ls)
          /\ refreshes' = [refreshes EXCEPT ![r].state = "done", ![r].status = status,
                                            ![r].result = "false"]
          /\ Finally
  /\ UNCHANGED <<issued, cnow, kind, cpc, retry, awaiting, sent, statuses, joined,
                 outcome>>

\* await response.json() has settled: the pair is stored, or the body was not
\* JSON and the catch block ran.
refreshJson(r, parsed) ==
  /\ UNCHANGED <<svars, ivars, mvars>>
  /\ r \in 1..Len(refreshes)
  /\ refreshes[r].state = "json"
  /\ ~MicrotaskPending
  /\ IF parsed
     THEN /\ ls' = setTokens(ls, issued + 1, issued + 1, accessTokenExpirySeconds,
                             DateNow)
          /\ issued' = issued + 1
          /\ refreshes' = [refreshes EXCEPT ![r].state = "done", ![r].result = "true",
                                            ![r].access = issued + 1]
     ELSE /\ ls' = clearTokens(ls)
          /\ UNCHANGED issued
          /\ refreshes' = [refreshes EXCEPT ![r].state = "done", ![r].result = "false"]
  /\ Finally
  /\ UNCHANGED <<cnow, kind, cpc, retry, awaiting, sent, statuses, joined, outcome>>

\* auth.refresh(): a manual call of refreshAccessToken(); its result is
\* not awaited by any request.
authRefresh ==
  /\ UNCHANGED <<svars, ivars, mvars>>
  /\ ~MicrotaskPending
  /\ Len(refreshes) < MaxRefreshes
  /\ CallRefresh(refreshAccessToken)
  /\ UNCHANGED <<ls, issued, cnow, kind, cpc, retry, awaiting, sent, statuses, joined,
                 outcome>>

clientTick ==
  /\ UNCHANGED <<svars, ivars, mvars>>
  /\ cnow < MaxClock
  /\ ~MicrotaskPending
  /\ cnow' = cnow + 1
  /\ UNCHANGED <<ls, isRefreshing, refreshPromise, refreshes, issued, kind, cpc,
                 retry, awaiting, sent, statuses, joined, outcome>>

Statuses == {OK, UNAUTHORIZED, SERVER_ERROR, NetworkError}

ClientNext ==
  \/ \E c \in Calls, k \in {"api", "logoutAll"} : callAuthorized(c, k)
  \/ \E c \in Calls : callLogin(c)
  \/ \E c \in Calls : callLogout(c)
  \/ \E c \in Calls : resumeProactive(c)
  \/ \E c \in Calls, status \in Statuses : response(c, status)
  \/ \E c \in Calls : resume401(c)
  \/ \E r \in 1..Len(refreshes), status \in Statuses :
       refreshResponse(r, status)
  \/ \E r \in 1..Len(refreshes), parsed \in BOOLEAN :
       refreshJson(r, parsed)
  \/ authRefresh
  \/ clientTick


\* ====================================================================
\* Token issuance, JwtAuthGuard and the HTTP replies of the token
\* operations (specification IssueSpec), in real units
\* ====================================================================
\* configuration(): the keys the 'jwt' section defines.
configuration ==
  ("jwt.secret" :> "omnihub-secret-key-change-in-production") @@
  ("jwt.expiresIn" :> [n |-> 7, unit |-> "d"])

\* configService.get(key) || fallback
ConfigGet(key, fallback) ==
  IF key \in DOMAIN configuration THEN configuration[key] ELSE fallback

\* ms('15m'), ms('7d'): a time span in milliseconds
ms(span) ==
  CASE span.unit = "s" -> span.n * 1000
    [] span.unit = "m" -> span.n * 60 * 1000
    [] span.unit = "h" -> span.n * 60 * 60 * 1000
    [] span.unit = "d" -> span.n * 24 * 60 * 60 * 1000

\* jwt.sign(payload, secret, { expiresIn }) at time t (milliseconds):
\* iat = floor(t / 1000), exp = iat + floor(ms(expiresIn) / 1000)
generateAccessToken(userId, t) ==
  LET secret == ConfigGet("jwt.secret", "default-secret")
      expiresIn == ConfigGet("jwt.accessTokenExpiry", [n |-> 15, unit |-> "m"])
  IN [userId |-> userId, iat |-> t \div 1000,
      exp |-> (t \div 1000) + (ms(expiresIn) \div 1000), secret |-> secret]

\* new Date(Date.now() + refreshTokenExpiryMs), in milliseconds
RefreshExpiresAt(t) ==
  t + ConfigGet("jwt.refreshTokenExpiryMs", 7 * 24 * 60 * 60 * 1000)

\* Fault variant: the reported expiresIn taken from the configured jwt.expiresIn.
ExpiryInfoFromJwtExpiresIn ==
  [accessTokenExpiresIn |-> ms(configuration["jwt.expiresIn"]) \div 1000,
   refreshTokenExpiresIn |->
     ConfigGet("jwt.refreshTokenExpiryMs", 7 * 24 * 60 * 60 * 1000) \div 1000]

getTokenExpiryInfo ==
  [accessTokenExpiresIn |->
     ConfigGet("jwt.accessTokenExpirySeconds", accessTokenExpirySeconds),
   refreshTokenExpiresIn |->
     ConfigGet("jwt.refreshTokenExpiryMs", 7 * 24 * 60 * 60 * 1000) \div 1000]

\* The response of generateTokenPair / refreshTokens.  The refresh token's row is
\* written with expiresAt computed at time t, the access token is signed at
\* signedAt; issuedAt, signedAt and expires_at are kept for the record.
TokenResponse(userId, t, signedAt) ==
  [accessToken |-> generateAccessToken(userId, signedAt),
   refreshToken |-> uuidv4,
   expiresIn |-> getTokenExpiryInfo.accessTokenExpiresIn,
   refreshExpiresIn |-> getTokenExpiryInfo.refreshTokenExpiresIn,
   expires_at |-> RefreshExpiresAt(t),
   issuedAt |-> t,
   signedAt |-> signedAt]

NoPair == [refreshToken |-> NULL]

\* jwt.verify(token, secret) at time t: the signature, then exp against
\* floor(t / 1000)
jwtVerify(token, secret, t) ==
  /\ token.secret = secret
  /\ (t \div 1000) < token.exp

NoHeader == [scheme |-> "none"]

Bearer(token) == [scheme |-> "Bearer", token |-> token]

\* Fault variant: a guard that also wants the user's session unrevoked.
GuardChecksSession(authHeader, t) ==
  IF authHeader.scheme # "Bearer"
  THEN "No token provided"
  ELSE IF jwtVerify(authHeader.token, ConfigGet("jwt.secret", ""), t)
          /\ ~sessionRevoked
  THEN "ok"
  ELSE "Invalid or expired token"

\* JwtAuthGuard.canActivate on a request with this Authorization header
canActivate(authHeader, t) ==
  IF authHeader.scheme # "Bearer"
  THEN "No token provided"
  ELSE IF jwtVerify(authHeader.token, ConfigGet("jwt.secret", ""), t)
  THEN "ok"
  ELSE "Invalid or expired token"

\* What a token operation throws.  fault: "none"; "credentials" (unknown user,
\* wrong password, bad Google credential, email taken, unknown or expired refresh
\* token); "store" (a database statement of the operation rejects).
Operations == {"login", "register", "googleAuth", "refreshTokens", "logout"}

Faults == {"none", "credentials", "store"}

Throws(op, fault) ==
  CASE fault = "none" -> "none"
    [] op = "googleAuth" -> "UnauthorizedException"
    [] fault = "store" -> "Error"
    [] fault = "credentials" ->
         IF op = "register" THEN "BadRequestException"
         ELSE IF op = "logout" THEN "none"
         ELSE "UnauthorizedException"

\* The status of the reply: a POST handler that returns answers 201, an
\* HttpException answers with its status, any other error answers 500.
HttpStatus(thrown) ==
  CASE thrown = "none" -> CREATED
    [] thrown = "UnauthorizedException" -> UNAUTHORIZED
    [] thrown = "BadRequestException" -> BAD_REQUEST
    [] thrown = "Error" -> SERVER_ERROR

NoGuard == [result |-> "none"]

NoReply == [op |-> "none"]

IssueOff ==
  /\ itime = 0
  /\ tokenPair = NoPair
  /\ sessionRevoked = FALSE
  /\ guard = NoGuard
  /\ reply = NoReply

\* Delays between two statements of one handler.
Delays == {0, IssueStepMs}

\* The clock can advance by d: it stays in range, and steps of the resolution
\* are taken only within MaxSkewMs after a multiple of the access lifetime.
ClockAllows(d) ==
  /\ itime + d < MaxIssueSeconds * 1000
  /\ d = IssueStepMs =>
       (itime + d) % (accessTokenExpirySeconds * 1000) <= MaxSkewMs

\* login / register / googleAuth succeed: generateTokenPair signs the access
\* token, then inserts the refresh token row.
issuePair(u, d) ==
  /\ UNCHANGED <<svars, cvars, mvars>>
  /\ ClockAllows(d)
  /\ tokenPair' = TokenResponse(u, itime + d, itime)
  /\ sessionRevoked' = FALSE
  /\ itime' = itime + d
  /\ UNCHANGED <<guard, reply>>

\* refreshTokens succeeds on the pair's refresh token: the old row is revoked,
\* the successor row inserted, then the access token signed.
refreshPair(d) ==
  /\ UNCHANGED <<svars, cvars, mvars>>
  /\ tokenPair # NoPair
  /\ ~sessionRevoked
  /\ ~IsExpired(tokenPair.expires_at, itime)
  /\ ClockAllows(d)
  /\ tokenPair' = TokenResponse(tokenPair.accessToken.userId, itime, itime + d)
  /\ itime' = itime + d
  /\ UNCHANGED <<sessionRevoked, guard, reply>>

\* logout / logoutAll / revokeSession revoke the pair's refresh token row.
revokePair ==
  /\ UNCHANGED <<svars, cvars, mvars>>
  /\ tokenPair # NoPair
  /\ sessionRevoked' = TRUE
  /\ UNCHANGED <<itime, tokenPair, guard, reply>>

\* Headers a request can carry: none, the issued access token, or that token
\* signed with another key.
Headers ==
  {NoHeader} \cup
  (IF tokenPair = NoPair THEN {}
   ELSE {Bearer(tokenPair.accessToken),
         Bearer([tokenPair.accessToken EXCEPT !.secret = "forged"])})

\* A request to a guarded route.
guarded(authHeader) ==
  /\ UNCHANGED <<svars, cvars, mvars>>
  /\ guard' = [header |-> authHeader, at |-> itime,
               revoked |-> sessionRevoked,
               result |-> canActivate(authHeader, itime)]
  /\ reply' = NoReply
  /\ UNCHANGED <<itime, tokenPair, sessionRevoked>>

\* A token operation with a fault injected; the reply goes out.
handle(op, fault) ==
  /\ UNCHANGED <<svars, cvars, mvars>>
  /\ reply' = [op |-> op, fault |-> fault,
               status |-> HttpStatus(Throws(op, fault))]
  /\ guard' = NoGuard
  /\ UNCHANGED <<itime, tokenPair, sessionRevoked>>

issueTick(d) ==
  /\ UNCHANGED <<svars, cvars, mvars>>
  /\ ClockAllows(d)
  /\ itime' = itime + d
  /\ UNCHANGED <<tokenPair, sessionRevoked, guard, reply>>

\* Clock steps: the resolution, and the lifetime of an access token.
ClockSteps == {IssueStepMs, accessTokenExpirySeconds * 1000}

\* ====================================================================
\* MigrationService (specification MigSpec).  File names are numbers; their
\* order is the order of the file names.
\* ====================================================================
FileNames == 1..MaxFiles

\* An ordered list of a set of names: ascending (Array.sort, ORDER BY name) ...
RECURSIVE Ascending(_)
Ascending(S) ==
  IF S = {} THEN << >>
  ELSE LET least == CHOOSE n \in S : \A m \in S : n <= m
       IN <<least>> \o Ascending(S \ {least})

\* ... and descending (ORDER BY name DESC).
RECURSIVE Descending(_)
Descending(S) ==
  IF S = {} THEN << >>
  ELSE LET greatest == CHOOSE n \in S : \A m \in S : m <= n
       IN <<greatest>> \o Descending(S \ {greatest})

\* SELECT COALESCE(MAX(batch), 0) FROM _migrations
getCurrentBatch(table) ==
  IF table = {} THEN 0
  ELSE CHOOSE b \in {r.batch : r \in table} : \A r \in table : r.batch <= b

\* getPending(): the files on disk with no record, in file order
getPending(table) ==
  Ascending(DOMAIN files \ {r.name : r \in table})

\* Fault variant: a run that reuses the current batch number.
ReusedBatch(table) ==
  IF getCurrentBatch(table) = 0 THEN 1 ELSE getCurrentBatch(table)

\* const batch = (await this.getCurrentBatch()) + 1
NextBatch(table) == getCurrentBatch(table) + 1

\* SELECT * FROM _migrations WHERE batch = $1 ORDER BY name DESC
LastBatchNames(table) ==
  Descending({r.name : r \in {x \in table : x.batch = getCurrentBatch(table)}})

\* The results of a loop over names that stops at the first failure; failed is
\* the set of names whose statement would fail.
RECURSIVE RunUntilFailure(_, _)
RunUntilFailure(names, failed) ==
  IF names = << >> THEN << >>
  ELSE IF Head(names) \in failed
  THEN <<[migration |-> Head(names), success |-> FALSE]>>
  ELSE <<[migration |-> Head(names), success |-> TRUE]>>
       \o RunUntilFailure(Tail(names), failed)

Succeeding(results) ==
  {results[k].migration : k \in {j \in 1..Len(results) : results[j].success}}

MigOff ==
  /\ files = << >>
  /\ migrations = {}
  /\ runCount = 0
  /\ lastRun = [op |-> "none", results |-> << >>]

MigInit ==
  /\ files \in [{1} -> BOOLEAN]
  /\ migrations = {}
  /\ runCount = 0
  /\ lastRun = [op |-> "none", results |-> << >>]

\* A developer adds a migration file, with or without a DOWN section.
addFile(name, down) ==
  /\ UNCHANGED <<svars, cvars, ivars>>
  /\ name \notin DOMAIN files
  /\ files' = [n \in DOMAIN files \cup {name} |->
                 IF n = name THEN down ELSE files[n]]
  /\ UNCHANGED <<migrations, runCount, lastRun>>

\* migrate(): every pending file in order, each recorded with the new batch
\* number, until a runUp fails (sqlFails: the files whose UP statement errors).
migrate(sqlFails) ==
  /\ UNCHANGED <<svars, cvars, ivars>>
  /\ runCount < MaxRuns
  /\ LET results == RunUntilFailure(getPending(migrations), sqlFails)
         batch == NextBatch(migrations)
     IN /\ migrations' = migrations \cup
             {[name |-> n, batch |-> batch, run |-> runCount + 1] :
                n \in Succeeding(results)}
        /\ lastRun' = [op |-> "migrate", results |-> results]
  /\ runCount' = runCount + 1
  /\ UNCHANGED files

\* rollback(): the records of the current batch, newest name first, each removed
\* after its DOWN ran, until a runDown fails (no DOWN section, or sqlFails).
rollback(sqlFails) ==
  /\ UNCHANGED <<svars, cvars, ivars>>
  /\ LET noDown == {n \in DOMAIN files : ~files[n]}
         results == RunUntilFailure(LastBatchNames(migrations), noDown \cup sqlFails)
     IN /\ migrations' = {r \in migrations : r.name \notin Succeeding(results)}
        /\ lastRun' = [op |-> "rollback", results |-> results]
  /\ UNCHANGED <<files, runCount>>

MigNext ==
  \/ \E name \in FileNames, down \in BOOLEAN : addFile(name, down)
  \/ \E sqlFails \in SUBSET FileNames : migrate(sqlFails)
  \/ \E sqlFails \in SUBSET FileNames : rollback(sqlFails)

MigStart == ServerInit /\ ClientOff /\ IssueOff /\ MigInit

MigSpec == MigStart /\ [][MigNext]_vars

IssueNext ==
  \/ \E u \in Users, d \in Delays : issuePair(u, d)
  \/ \E d \in Delays : refreshPair(d)
  \/ revokePair
  \/ \E authHeader \in Headers : guarded(authHeader)
  \/ \E op \in Operations, fault \in Faults : handle(op, fault)
  \/ \E d \in ClockSteps : issueTick(d)

IssueStart == ServerInit /\ ClientOff /\ IssueOff /\ MigOff

IssueSpec == IssueStart /\ [][IssueNext]_vars

\* ====================================================================
\* The server and client specifications
\* ====================================================================
ClientStart == ServerInit /\ ClientInit /\ IssueOff /\ MigOff

ClientSpec == ClientStart /\ [][ClientNext]_vars

\* The client under the scheduling the JavaScript runtime guarantees: the
\* continuation of an await on a settled promise runs. Nothing obliges the
\* network to answer a fetch, or the application to make a call.
ClientFairSpec ==
  /\ ClientStart
  /\ [][ClientNext]_vars
  /\ \A c \in Calls : WF_vars(resumeProactive(c)) /\ WF_vars(resume401(c))

Init == ServerInit /\ ClientOff /\ IssueOff /\ MigOff

Next ==
  \/ \E u \in Users : login(u)
  \/ \E p \in Tasks, token \in Presentable : refreshSelect(p, token)
  \/ \E p \in Tasks : refreshCheck(p)
  \/ \E p \in Tasks : refreshRevokeOld(p)
  \/ \E p \in Tasks : refreshInsertNew(p)
  \/ \E p \in Tasks : refreshReturn(p)
  \/ \E token \in Presentable : logout(token)
  \/ \E u \in Users : logoutAll(u)
  \/ \E u \in Users, sessionId \in RowIds : revokeSession(u, sessionId)
  \/ Tick

Spec == Init /\ [][Next]_vars

\* The same operations with requests handled one at a time: a request starts
\* only when no refreshTokens call is between its first and last statement.
SeqNext ==
  \/ InFlight = {} /\ \E u \in Users : login(u)
  \/ InFlight = {} /\ \E p \in Tasks, token \in Presentable : refreshSelect(p, token)
  \/ \E p \in Tasks : refreshCheck(p)
  \/ \E p \in Tasks : refreshRevokeOld(p)
  \/ \E p \in Tasks : refreshInsertNew(p)
  \/ \E p \in Tasks : refreshReturn(p)
  \/ InFlight = {} /\ \E token \in Presentable : logout(token)
  \/ InFlight = {} /\ \E u \in Users : logoutAll(u)
  \/ InFlight = {} /\ \E u \in Users, sessionId \in RowIds : revokeSession(u, sessionId)
  \/ Tick

SeqSpec == Init /\ [][SeqNext]_vars

\* Logins and refreshes over a database whose statements can fail.
FaultNext ==
  \/ \E u \in Users : login(u)
  \/ \E p \in Tasks, token \in Presentable : refreshSelect(p, token)
  \/ \E p \in Tasks : refreshCheck(p)
  \/ \E p \in Tasks : refreshRevokeOld(p)
  \/ \E p \in Tasks : refreshInsertNew(p)
  \/ \E p \in Tasks : refreshThrows(p)
  \/ \E p \in Tasks : refreshReturn(p)
  \/ Tick

FaultSpec == Init /\ [][FaultNext]_vars

\* ====================================================================
\* Claims about the token store
\* ====================================================================
Quiet == \A p \in Tasks : pc[p] \in {"idle", "done"}

\* active <=> revoked_at is unset and expires_at > now
Active(i) ==
  refresh_tokens[i].revoked_at = NULL /\ refresh_tokens[i].expires_at > now

\* C1: two refreshTokens calls presenting the same token never both return a
\* new pair: of two finished calls on one token, one of which succeeded,
\* exactly one succeeded.
C1_OneWinner ==
  \A p \in Tasks, q \in Tasks :
    (/\ p # q
     /\ pc[p] = "done" /\ pc[q] = "done"
     /\ presented[p] = presented[q]
     /\ res[p] = "ok")
    => res[q] # "ok"

\* C2: a refresh token is single-use: a refreshTokens call that begins after a
\* call on the same token has returned a pair fails at once as invalid and
\* leaves the table as it is.
C2_SingleUse ==
  [][\A p \in Tasks, token \in Presentable :
       (Succeeded(token) /\ refreshSelect(p, token))
       => /\ res'[p] = "Invalid refresh token"
          /\ pc'[p] = "done"
          /\ refresh_tokens' = refresh_tokens]_vars

C2_Witness ==
  \E p \in Tasks :
    /\ pc[p] = "done"
    /\ res[p] = "Invalid refresh token"
    /\ Succeeded(presented[p])

\* C3: once logout(token) has returned, every refreshTokens call that begins
\* afterwards with that token fails as invalid, from the very next call on.
C3_RevokedStaysUnusable ==
  [][\A p \in Tasks, token \in Presentable :
       (Targeted(token) /\ refreshSelect(p, token))
       => /\ res'[p] = "Invalid refresh token"
          /\ pc'[p] = "done"
          /\ refresh_tokens' = refresh_tokens]_vars

C3_Witness ==
  \E p \in Tasks :
    /\ pc[p] = "done"
    /\ res[p] = "Invalid refresh token"
    /\ Targeted(presented[p])
    /\ ~Succeeded(presented[p])

\* C4: right after logoutAll(userId) getActiveSessions(userId) is empty, and it
\* stays empty until a row is inserted for that user.
RowsOf(u) == {i \in RowIds : refresh_tokens[i].user_id = u}

C4_LogoutAllEmptiesSessions ==
  [][\A u \in Users :
       (\/ logoutAll(u)
        \/ (getActiveSessions(u) = << >> /\ RowsOf(u)' = RowsOf(u)))
       => getActiveSessions(u)' = << >>]_vars

C4_Witness ==
  \E u \in Users :
    /\ Cardinality(RowsOf(u)) >= 2
    /\ \A i \in RowsOf(u) :
         /\ ghost[i].targeted
         /\ ghost[i].parent = NULL
         /\ refresh_tokens[i].expires_at > now
    /\ getActiveSessions(u) = << >>

\* C5: rotation chain integrity under sequential refreshes.  Following the
\* successor links from a token issued by a login: every token but the last is
\* revoked and its link names the token of the row its rotation inserted; the
\* last has no link and is the only active token of the chain (it is active
\* unless a logout aimed at it or it has expired).
Succ(i) ==
  {j \in RowIds : refresh_tokens[j].token = refresh_tokens[i].replaced_by_token}

IsRoot(i) ==
  \A j \in RowIds : refresh_tokens[j].replaced_by_token # refresh_tokens[i].token

RECURSIVE Chain(_)
Chain(i) ==
  IF Succ(i) = {} THEN <<i>> ELSE <<i>> \o Chain(CHOOSE j \in Succ(i) : TRUE)

ChainOk(ch) ==
  LET n == Len(ch) IN
    /\ \A k \in 1..(n - 1) :
         /\ refresh_tokens[ch[k]].revoked_at # NULL
         /\ refresh_tokens[ch[k]].replaced_by_token = refresh_tokens[ch[k + 1]].token
         /\ ghost[ch[k + 1]].parent = refresh_tokens[ch[k]].token
         /\ refresh_tokens[ch[k + 1]].user_id = refresh_tokens[ch[k]].user_id
         /\ Cardinality(Succ(ch[k])) = 1
    /\ refresh_tokens[ch[n]].replaced_by_token = NULL
    /\ {k \in 1..n : Active(ch[k])} =
         IF ghost[ch[n]].targeted \/ refresh_tokens[ch[n]].expires_at <= now
         THEN {} ELSE {n}

C5_ChainIntegrity ==
  Quiet => \A i \in RowIds : IsRoot(i) => ChainOk(Chain(i))

C5_Witness ==
  /\ Quiet
  /\ \E i \in RowIds :
       /\ IsRoot(i)
       /\ Len(Chain(i)) >= 3
       /\ Active(Chain(i)[Len(Chain(i))])

\* C10: refreshTokens does not get past its expiry check with a token whose
\* expires_at <= now: it ends as expired.
C10_ExpiredNeverRefreshed ==
  [][\A p \in Tasks :
       (refreshCheck(p) /\ refresh_tokens[storedToken[p]].expires_at <= now)
       => /\ res'[p] = "Refresh token expired"
          /\ pc'[p] = "done"]_vars

\* ====================================================================
\* Claims about the client coordinator (specification ClientSpec)
\* ====================================================================
InFlightRefreshes == {r \in 1..Len(refreshes) : refreshes[r].state # "done"}

\* Calls suspended on the refresh they found necessary before sending.
BlockedOnExpiry ==
  {c \in Calls : cpc[c] = "awaitProactive" /\ ~Settled(awaiting[c])}

\* C6: however many authorized calls are blocked at once on a proactively
\* expired token, exactly one refresh network call is in flight and all of
\* them await it; once it has succeeded each of them sends its request with
\* the access token that refresh obtained.
C6_SingleFlight ==
  /\ BlockedOnExpiry # {} =>
       \E r \in InFlightRefreshes :
         /\ InFlightRefreshes = {r}
         /\ \A c \in BlockedOnExpiry : awaiting[c] = r
  /\ \A c \in Calls :
       (Refreshed(joined[c][1]) /\ cpc[c] # "awaitProactive")
       => /\ Len(sent[c]) >= 1
          /\ sent[c][1] = refreshes[joined[c][1]].access

C6_Witness ==
  /\ Len(refreshes) = 1
  /\ \A c \in Calls :
       /\ kind[c] = "api"
       /\ joined[c][1] = 1
       /\ Refreshed(1)
       /\ sent[c] = <<refreshes[1].access>>

\* C7: a call whose first response is 401 and whose refresh succeeds is sent a
\* second time with the new access token, and settles with the answer to that
\* second request: with its data when the retry is answered 200.
C7_TransparentRetry ==
  \A c \in Calls :
    (/\ Len(statuses[c]) >= 1
     /\ statuses[c][1] = UNAUTHORIZED
     /\ Refreshed(joined[c][2])
     /\ cpc[c] # "await401")
    => /\ Len(sent[c]) = 2
       /\ sent[c][2] = refreshes[joined[c][2]].access
       /\ cpc[c] \in {"resolved", "rejected"} => outcome[c].attempt = 2
       /\ (Len(statuses[c]) = 2 /\ statuses[c][2] = OK)
            => (cpc[c] = "resolved" /\ outcome[c] = Data(2))

C7_Witness ==
  \E c \in Calls :
    /\ kind[c] = "api"
    /\ statuses[c] = <<UNAUTHORIZED, OK>>
    /\ Refreshed(joined[c][2])
    /\ cpc[c] = "resolved"

FailedWait(c) ==
  /\ cpc[c] \in {"awaitProactive", "await401"}
  /\ Settled(awaiting[c])
  /\ ~Refreshed(awaiting[c])

\* A call that has gone past an await on a failed refresh.
FailedAndResumed(c) ==
  \/ /\ joined[c][1] # NULL
     /\ Settled(joined[c][1]) /\ ~Refreshed(joined[c][1])
     /\ cpc[c] # "awaitProactive"
  \/ /\ joined[c][2] # NULL
     /\ Settled(joined[c][2]) /\ ~Refreshed(joined[c][2])
     /\ cpc[c] # "await401"

C9_FailedRefreshClearsAll ==
  \A c \in Calls :
    /\ FailedWait(c) => ls = EmptyStorage
    /\ FailedAndResumed(c) => (cpc[c] = "rejected" /\ outcome[c] = SessionExpired)

C15_GuardIgnoresStore ==
  guard # NoGuard =>
    guard.result =
      (IF guard.header.scheme # "Bearer" THEN "No token provided"
       ELSE IF /\ guard.header.token.secret = configuration["jwt.secret"]
               /\ guard.at \div 1000 < guard.header.token.exp
       THEN "ok"
       ELSE "Invalid or expired token")

\* An unexpired access token accepted after the session was revoked.
C15_Witness ==
  /\ guard # NoGuard
  /\ guard.revoked
  /\ guard.result = "ok"

\* C16: a token operation in which a database statement fails is answered 500,
\* never 401.
C16_StoreFailureIsServerError ==
  (reply # NoReply /\ reply.fault = "store") => reply.status = SERVER_ERROR

\* ====================================================================
\* Claims about migrations (specification MigSpec)
\* ====================================================================
RunsOf(table) == {r.run : r \in table}

LastRunOf(table) ==
  CHOOSE n \in RunsOf(table) : \A m \in RunsOf(table) : m <= n

AllSucceeded(results) == \A k \in 1..Len(results) : results[k].success

\* C19: a rollback() in which every DOWN succeeds removes exactly the records
\* of the latest migrate() run that has records, newest file name first, and
\* leaves the records of every earlier run as they are.
C19_RollbackLastBatch ==
  [][\A sqlFails \in SUBSET FileNames :
       (rollback(sqlFails) /\ migrations # {} /\ AllSucceeded(lastRun'.results))
       => LET last == LastRunOf(migrations)
              gone == {r \in migrations : r.run = last}
          IN /\ migrations' = migrations \ gone
             /\ [k \in 1..Len(lastRun'.results) |-> lastRun'.results[k].migration]
                  = Descending({r.name : r \in gone})]_vars

\* Two runs applied migrations, the second at least two; the rollback undid the
\* second run and the first run's records are still there.
C19_Witness ==
  /\ lastRun.op = "rollback"
  /\ Len(lastRun.results) >= 2
  /\ AllSucceeded(lastRun.results)
  /\ runCount = 2
  /\ migrations # {}
  /\ RunsOf(migrations) = {1}

\* ====================================================================
\* More claims about the token store (specification Spec)
\* ====================================================================
\* C12: getActiveSessions(userId) lists exactly the user's rows that are
\* unrevoked and have expires_at > now, each once, newest created_at first, with
\* the row's id, created_at and expires_at and without its token.
C12_ActiveSessionsExact ==
  \A u \in Users :
    LET out == getActiveSessions(u)
        mine == {i \in RowIds : refresh_tokens[i].user_id = u /\ Active(i)}
    IN /\ {out[k].id : k \in 1..Len(out)} = mine
       /\ Len(out) = Cardinality(mine)
       /\ \A k \in 1..Len(out), l \in 1..Len(out) :
            k < l => out[k].createdAt >= out[l].createdAt
       /\ \A k \in 1..Len(out) :
            /\ "token" \notin DOMAIN out[k]
            /\ out[k].createdAt = refresh_tokens[out[k].id].created_at
            /\ out[k].expiresAt = refresh_tokens[out[k].id].expires_at

\* A user with two active sessions created at different times, beside an
\* expired row and a row that is revoked or another user's.
C12_Witness ==
  \E u \in Users :
    /\ Len(getActiveSessions(u)) = 2
    /\ getActiveSessions(u)[1].createdAt > getActiveSessions(u)[2].createdAt
    /\ \E i \in RowIds :
         refresh_tokens[i].user_id # u \/ refresh_tokens[i].revoked_at # NULL

\* C13: logout answers the same success for every token (active, revoked,
\* expired or unknown), and a logout of a token that a logout has already
\* covered changes no row.
C13_LogoutIdempotent ==
  [][\A token \in Presentable :
       logout(token)
       => /\ \A other \in Presentable : logoutReply(token) = logoutReply(other)
          /\ logoutReply(token).success
          /\ Targeted(token) => refresh_tokens' = refresh_tokens]_vars

\* A token revoked by a logout at an earlier time than now (a second logout
\* would be seen if it wrote), beside a row that is still unrevoked.
C13_Witness ==
  \E i \in RowIds :
    /\ ghost[i].targeted
    /\ refresh_tokens[i].revoked_at # NULL
    /\ refresh_tokens[i].revoked_at < now
    /\ refresh_tokens[i].replaced_by_token = NULL
    /\ \E j \in RowIds : refresh_tokens[j].revoked_at = NULL

\* C14: revokeSession(userId, sessionId) changes no row other than the row
\* with that id, and that one only if it is the user's.
C14_RevokeSessionOwnRowOnly ==
  [][\A u \in Users, sessionId \in RowIds :
       revokeSession(u, sessionId)
       => \A i \in RowIds :
            refresh_tokens'[i] # refresh_tokens[i]
            => (i = sessionId /\ refresh_tokens[i].user_id = u)]_vars

\* User u has revoked a session of their own; another user's session is active
\* and revokeSession(u, ...) aimed at it changes nothing.
C14_Witness ==
  \E u \in Users, i \in RowIds, j \in RowIds :
    /\ refresh_tokens[i].user_id = u
    /\ ghost[i].targeted
    /\ refresh_tokens[i].revoked_at # NULL
    /\ refresh_tokens[j].user_id # u
    /\ Active(j)
    /\ RevokeSessionUpdate(refresh_tokens, u, j, now) = refresh_tokens

\* ====================================================================
\* More claims about the client coordinator (specification ClientSpec)
\* ====================================================================
Final == {"resolved", "rejected"}

\* C17: when auth.logout or auth.logoutAll finishes, however its request ended
\* (data, an error status, a rejected fetch, or a failed refresh before the
\* request), the storage is empty and the helper's promise resolves.
C17_LogoutBestEffort ==
  [][\A c \in Calls :
       (/\ kind'[c] \in {"logout", "logoutAll"}
        /\ cpc[c] \notin Final
        /\ cpc'[c] \in Final)
       => /\ ls' = EmptyStorage
          /\ AuthResult(kind'[c], outcome'[c]) = Void]_vars

\* auth.logoutAll on a storage that holds only the legacy token: the refresh
\* before the request fails without clearing anything, the request is never
\* sent, and the storage ends empty.
C17_Witness ==
  \E c \in Calls :
    /\ kind[c] = "logoutAll"
    /\ joined[c][1] = ResolvedFalse
    /\ cpc[c] = "rejected"
    /\ outcome[c] = SessionExpired
    /\ sent[c] = << >>
    /\ ls = EmptyStorage

\* C18: an authorized call that starts while an access token is stored and
\* isTokenExpired() holds sends nothing in its first step and awaits the
\* coordinated refresh; when it resumes it sends only if that refresh
\* succeeded, bearing the access token the refresh obtained, which is then not
\* expired; if the refresh failed it rejects and sends nothing.
C18_RefreshBeforeSend ==
  [][\A c \in Calls :
       /\ (/\ \E k \in {"api", "logoutAll"} : callAuthorized(c, k)
           /\ getAccessToken(ls) # NULL
           /\ isTokenExpired(ls, DateNow))
          => (sent'[c] = << >> /\ cpc'[c] = "awaitProactive")
       /\ resumeProactive(c)
          => IF Refreshed(awaiting[c])
             THEN /\ sent'[c] = <<refreshes[awaiting[c]].access>>
                  /\ ~isTokenExpired(ls, DateNow)
             ELSE /\ sent'[c] = << >>
                  /\ cpc'[c] = "rejected"]_vars

\* One call waited for a refresh that succeeded and then sent the new token;
\* another waited for a refresh of its own that failed and sent nothing.
C18_Witness ==
  \E c \in Calls, e \in Calls :
    /\ Refreshed(joined[c][1])
    /\ Len(sent[c]) >= 1
    /\ sent[c][1] = refreshes[joined[c][1]].access
    /\ joined[e][1] \in 1..Len(refreshes)
    /\ joined[e][1] # joined[c][1]
    /\ ~Refreshed(joined[e][1])
    /\ cpc[e] = "rejected"
    /\ sent[e] = << >>

\* C20: at most one refresh fetch is in flight; while one is, the module flag
\* and the shared promise designate it and a further refreshAccessToken() call
\* returns that promise without starting a fetch.
C20_OneRefreshInFlight ==
  /\ Cardinality(InFlightRefreshes) <= 1
  /\ \A r \in InFlightRefreshes :
       /\ isRefreshing
       /\ refreshPromise = r
       /\ refreshAccessToken = [ret |-> r, started |-> FALSE]

\* A call that got a 401 and a call that found the token expired await the
\* same fetch.
C20_Witness ==
  \E r \in InFlightRefreshes, c \in Calls, e \in Calls :
    /\ cpc[c] = "await401"
    /\ cpc[e] = "awaitProactive"
    /\ awaiting[c] = r
    /\ awaiting[e] = r

\* ====================================================================
\* Claims about the end of a refresh (specification ClientSpec)
\* ====================================================================
FinishedRefreshes == {r \in 1..Len(refreshes) : refreshes[r].state = "done"}

\* C21 as stated: once a refresh has finished (and none is in flight) the flag
\* and the shared promise are cleared and the next refreshAccessToken() call
\* starts a network call.
C21_NextRefreshCallsNetwork ==
  (FinishedRefreshes # {} /\ InFlightRefreshes = {})
  => /\ ~isRefreshing
     /\ refreshPromise = NULL
     /\ refreshAccessToken.started

\* C21, amended: every step that finishes a refresh (a non-OK response, a
\* rejected fetch, a body that is not JSON, or the pair stored) leaves the flag
\* FALSE and the shared promise null; and whenever a refresh has finished and
\* none is in flight, the next refreshAccessToken() call never returns a
\* finished promise: it starts a new network call if a refresh token is
\* stored, and resolves false without one if none is.
C21_FlagClearedInAllCases ==
  /\ [][\A r \in 1..Len(refreshes) :
          (refreshes[r].state # "done" /\ refreshes'[r].state = "done")
          => (~isRefreshing' /\ refreshPromise' = NULL)]_vars
  /\ []((FinishedRefreshes # {} /\ InFlightRefreshes = {})
        => /\ ~isRefreshing
           /\ refreshPromise = NULL
           /\ refreshAccessToken.ret \notin FinishedRefreshes
           /\ refreshAccessToken.started = (getRefreshToken(ls) # NULL)
           /\ ~refreshAccessToken.started => refreshAccessToken.ret = ResolvedFalse)

\* One refresh has stored a pair and a later one has failed; after a login the
\* next call would start a third.
C21_Witness ==
  \E r \in FinishedRefreshes, q \in FinishedRefreshes :
    /\ r < q
    /\ refreshes[r].result = "true"
    /\ refreshes[q].result = "false"
    /\ InFlightRefreshes = {}
    /\ refreshAccessToken = [ret |-> Len(refreshes) + 1, started |-> TRUE]

\* ====================================================================
\* Claims about a refresh that is never answered (specification
\* ClientFairSpec)
\* ====================================================================
\* C22: the in-flight flag is always released in the end, also when the
\* refresh fetch is never answered, and a call waiting for the refresh goes on.
C22_HungRefreshReleased ==
  /\ isRefreshing ~> ~isRefreshing
  /\ \A c \in Calls : (cpc[c] = "awaitProactive") ~> (cpc[c] # "awaitProactive")

\* ====================================================================
\* Claims about a rotation that fails (specification FaultSpec)
\* ====================================================================
\* Row i names a successor that no row holds.
Dangling(i) ==
  /\ refresh_tokens[i].replaced_by_token # NULL
  /\ \A j \in RowIds : refresh_tokens[j].token # refresh_tokens[i].replaced_by_token

\* C24: a refreshTokens call that ended with an error has left nothing behind:
\* no row is revoked with a successor link to a token that was never stored,
\* unless the rotation that wrote the link is still between its two writes.
C24_RotationAllOrNothing ==
  \A i \in RowIds :
    Dangling(i)
    => \E p \in Tasks :
         /\ pc[p] = "insert"
         /\ storedToken[p] = i
         /\ newRefreshToken[p] = refresh_tokens[i].replaced_by_token

\* ====================================================================
\* More claims about the token store (specification Spec)
\* ====================================================================
\* Row j is the successor issued for row i: the rotation of i's token inserted
\* it.
SuccessorOf(i, j) == ghost[j].parent = refresh_tokens[i].token

\* C23: a rotated token and a successor issued for it are never both active;
\* between the two writes of a rotation the rotated token is already inactive
\* and its successor is not stored yet.
C23_RotationLooksAtomic ==
  /\ \A i \in RowIds, j \in RowIds : SuccessorOf(i, j) => ~(Active(i) /\ Active(j))
  /\ \A p \in Tasks :
       pc[p] = "insert"
       => /\ ~Active(storedToken[p])
          /\ \A j \in RowIds : refresh_tokens[j].token # newRefreshToken[p]

\* One rotation has finished, and the rotation of the successor it stored is
\* between its two writes: the user has no active token at this moment.
C23_Witness ==
  \E i \in RowIds, j \in RowIds, p \in Tasks :
    /\ SuccessorOf(i, j)
    /\ pc[p] = "insert"
    /\ storedToken[p] = j
    /\ refresh_tokens[j].expires_at > now
    /\ \A k \in RowsOf(refresh_tokens[i].user_id) : ~Active(k)

\* C25: a row whose replaced_by_token is set has revoked_at set.
C25_LinkedIsRevoked ==
  \A i \in RowIds :
    refresh_tokens[i].replaced_by_token # NULL => refresh_tokens[i].revoked_at # NULL

\* A row that a logout revoked and a rotation then linked to a successor, at a
\* later time.
C25_Witness ==
  \E i \in RowIds, j \in RowIds :
    /\ ghost[i].targeted
    /\ refresh_tokens[i].replaced_by_token = refresh_tokens[j].token
    /\ refresh_tokens[i].revoked_at < refresh_tokens[j].created_at

\* C26: no step changes a row that is revoked: not its revoked_at, not its
\* replaced_by_token, and it does not become active again.
C26_RevokedIsTerminal ==
  [][\A i \in RowIds :
       refresh_tokens[i].revoked_at # NULL => refresh_tokens'[i] = refresh_tokens[i]]_vars

\* C29: no refreshTokens call stores a successor for a token that a logout,
\* logoutAll or revokeSession covering it has already revoked.
C29_RevocationWins ==
  [][\A p \in Tasks :
       refreshInsertNew(p) => ~ghost[storedToken[p]].targeted]_vars

\* ====================================================================
\* Claims about the legacy key and about logout during a refresh
\* (specification ClientSpec)
\* ====================================================================
\* The canonical key and the legacy key are both absent or hold the same token.
KeysAgree(s) == s.accessToken = s.userToken

\* C27 as stated: once a login, logout or logout-all has finished, the two keys
\* agree.
C27_KeysAlwaysAgree ==
  (\E c \in Calls : kind[c] \in {"login", "logout", "logoutAll"} /\ cpc[c] \in Final)
  => KeysAgree(ls)

\* C27, amended: every step that writes the storage leaves the access token
\* under both keys or under neither, and a storage in which the two keys agree
\* stays so.
C27_KeysWrittenTogether ==
  [][/\ ls' # ls => KeysAgree(ls')
     /\ KeysAgree(ls) => KeysAgree(ls')]_vars

\* A login has stored a pair, and a logout that sent its request has cleared
\* the storage.
C27_Witness ==
  \E c \in Calls, e \in Calls :
    /\ kind[c] = "login" /\ cpc[c] = "resolved"
    /\ kind[e] = "logout" /\ cpc[e] = "resolved"
    /\ Len(sent[e]) = 1
    /\ ls = EmptyStorage

\* The storage holds the legacy token only.
LegacyOnly(s) ==
  /\ s.userToken # NULL
  /\ s.accessToken = NULL
  /\ s.refreshToken = NULL
  /\ s.tokenExpiry = NULL

\* C28: with only the legacy token stored, an authorized call does not end as
\* 'Session expired' without having sent a request, and a request it sent bears
\* the legacy token.
C28_LegacyTokenIsSent ==
  \A c \in Calls :
    (Auth(kind[c]) /\ LegacyOnly(ls) /\ cpc[c] # "idle")
    => /\ ~(outcome[c] = SessionExpired /\ sent[c] = << >>)
       /\ cpc[c] # "awaitProactive" => (Len(sent[c]) >= 1 /\ sent[c][1] = ls.userToken)

\* C30: a refresh that finishes after auth.logout / auth.logoutAll has finished
\* and emptied the storage leaves the storage empty.
C30_LogoutIsFinal ==
  [][\A r \in InFlightRefreshes :
       (/\ refreshes'[r].state = "done"
        /\ ls = EmptyStorage
        /\ \E c \in Calls : kind[c] \in {"logout", "logoutAll"} /\ cpc[c] \in Final)
       => ls' = EmptyStorage]_vars

====
